---- MODULE Spec2Model ----
(***************************************************************************)
(* A model of logreduce's command line orchestration (cli/src/main.rs) and *)
(* of its path helpers (model/src/files.rs).                               *)
(*                                                                         *)
(*   Spec      one invocation of Cli::run (path, diff or train command)    *)
(*   SpecRace  two invocations of process sharing one --model path         *)
(*   SpecLive  process_live: the live anomaly report                       *)
(*   SpecName  IndexName::from_path on bounded path strings                *)
(***************************************************************************)
EXTENDS Integers, Sequences, FiniteSets, TLC

\* ------------------------------------------------------------------ bounds

\* Invocations that may run side by side.
MaxProcs == 2
\* Sources of the target content.
MaxSources == 2
\* Lines of a source (line positions are 1..MaxLine).
MaxLine == 4
\* Lines of context before and after an anomaly.
MaxCtx == 1
\* Pieces a bounded path is put together from.
MaxTokens == 3

VARIABLES
    \* ---- Cli::run / process (main.rs)
    fs,          \* the filesystem: path -> "none" | "file" | "dir"
    modelFile,   \* the invocations whose save the file at the --model path holds
    startExists, \* whether the --model path existed when the invocations started
    cmd,         \* per invocation: "path" | "diff" | "train" | "off"
    modelArg,    \* per invocation: --model given
    pc,          \* per invocation: position in Cli::run / process
    err,         \* per invocation: the error returned, "none" while there is none
    baselines,   \* per invocation: the baselines looked up: "none" | "explicit" | "discovered"
    loaded,      \* per invocation: Model::load returned a model
    trained,     \* per invocation: "no" | "explicit" | "discovered"
    saved,       \* per invocation: number of Model::save calls that wrote the path
    inspected,   \* per invocation: inspection (live or report) ran
    overwrote,   \* per invocation: its save replaced a model another invocation saved
    \* ---- process_live (main.rs)
    show_progress,      \* the show_progress argument
    nSources,           \* number of sources content.get_sources() yields
    srcIdx,             \* the source the outer loop is at (1-based)
    livePc,             \* "off" | "start" | "source" | "iter" | "end" | "returned"
    progress_sep_shown, \* the local of that name
    last_pos,           \* the local of that name: {} for None, {n} for Some(n)
    cursor,             \* position of the last anomaly index.inspect yielded (0: none yet)
    prevEnd,            \* last line of the previous anomaly's window in this source ({}: none)
    window,             \* first and last line of the window printed last
    emitted,            \* what the last step printed, in order
    visited,            \* the sources the outer loop took, in order
    failed,             \* the sources a read failed in
    silent,             \* the sources with an index that yielded nothing
    erased,             \* the sources whose progress indicator was erased
    lateOutput,         \* something was printed for a source after its read failure
    ret,                \* what process_live returned: "none" | "Ok" | "Err"
    \* ---- IndexName::from_path (files.rs)
    nameToks,   \* the pieces of the path from_path is called on
    nameKey,    \* the IndexName it returned
    nameToks2,  \* the pieces of a second path
    nameKey2,   \* the IndexName of the second path
    namePc      \* "off" | "input" | "derived" | "paired"

cliVars == <<fs, modelFile, startExists, cmd, modelArg, pc, err, baselines, loaded, trained,
             saved, inspected, overwrote>>

liveVars == <<show_progress, nSources, srcIdx, livePc, progress_sep_shown, last_pos,
              cursor, prevEnd, window, emitted, visited, failed, silent, erased,
              lateOutput, ret>>

nameVars == <<nameToks, nameKey, nameToks2, nameKey2, namePc>>

vars == <<cliVars, liveVars, nameVars>>

\* ------------------------------------------------------------- Cli / process

Procs == 1..MaxProcs

\* The paths of one run: the target, the path discovery synthesizes from it,
\* one explicit baseline, and the --model path.
TargetPath == "target"
BaselinePath == "baseline"
ModelPath == "model"

\* discover_baselines_from_path: path_str.push_str(".0")
PushDotZero(path) == IF path = TargetPath THEN "target.0" ELSE "other.0"

Paths == {TargetPath, PushDotZero(TargetPath), BaselinePath, ModelPath}

\* Path::is_dir / Path::is_file / Path::exists
IsDir(path) == fs[path] = "dir"
IsFile(path) == fs[path] = "file"
Exists(path) == fs[path] # "none"

\* Content::from_path: Ok(Directory) | Ok(File) | Err("Unknown path")
FromPath(path) ==
    IF IsDir(path) THEN "Directory"
    ELSE IF IsFile(path) THEN "File"
    ELSE "UnknownPath"

\* Content::from_input(Input::Path(p)) resolves p as Content::from_path does.
FromInput(path) == FromPath(path)

\* Content::discover_baselines_from_path: Ok(vec![baseline]) or the error of
\* from_input on the synthesized path, propagated by `?`.
DiscoverBaselinesFromPath(path) ==
    LET baseline == FromInput(PushDotZero(path))
    IN  IF baseline = "UnknownPath" THEN "UnknownPath" ELSE "Ok"

\* Content::discover_baselines, seeded from the target content.
DiscoverBaselines(path) == DiscoverBaselinesFromPath(path)

\* The baselines argument of process: None for path, Some(src) for diff.
BaselinesGiven(p) == cmd[p] = "diff"

\* A faulty resolution: it trains when both a model and baselines are given.
ResolveOutcomeGuess(given, exists, hasBaselines) ==
    IF given /\ exists /\ ~hasBaselines THEN "Load" ELSE "Train"

\* process, the match on model_path: Some(path) if path.exists() => Load or
\* Ambiguous, _ => Train.
ResolveOutcome(given, exists, hasBaselines) ==
    IF given /\ exists
    THEN IF ~hasBaselines THEN "Load" ELSE "Ambiguous"
    ELSE "Train"

Fail(p, e) ==
    /\ err' = [err EXCEPT ![p] = e]
    /\ pc' = [pc EXCEPT ![p] = "done"]

\* Model::save(path) writes the file at path, replacing what is there.
WriteModel(p) ==
    /\ modelFile' = {p}
    /\ fs' = [fs EXCEPT ![ModelPath] = "file"]
    /\ saved' = [saved EXCEPT ![p] = @ + 1]
    /\ overwrote' = [overwrote EXCEPT ![p] = @ \/ (modelFile \ {p} # {})]

\* process: let content = Content::from_input(input)?
ProcessContent(p) ==
    /\ pc[p] = "run"
    /\ cmd[p] \in {"path", "diff"}
    /\ IF FromInput(TargetPath) = "UnknownPath"
       THEN Fail(p, "UnknownPath")
       ELSE /\ pc' = [pc EXCEPT ![p] = "resolve"]
            /\ UNCHANGED err
    /\ UNCHANGED <<fs, modelFile, startExists, cmd, modelArg, baselines, loaded, trained,
                   saved, inspected, overwrote>>
    /\ UNCHANGED <<liveVars, nameVars>>

\* process: match model_path { Some(ref path) if path.exists() => ..., _ => ... }
Resolve(p) ==
    /\ pc[p] = "resolve"
    /\ LET outcome == ResolveOutcome(modelArg[p], Exists(ModelPath), BaselinesGiven(p))
       IN  CASE outcome = "Load" ->
                  /\ pc' = [pc EXCEPT ![p] = "load"]
                  /\ UNCHANGED err
             [] outcome = "Ambiguous" -> Fail(p, "Ambiguous")
             [] OTHER ->
                  /\ pc' = [pc EXCEPT ![p] = "lookup"]
                  /\ UNCHANGED err
    /\ UNCHANGED <<fs, modelFile, startExists, cmd, modelArg, baselines, loaded, trained,
                   saved, inspected, overwrote>>
    /\ UNCHANGED <<liveVars, nameVars>>

\* process: None => Model::load(path), then `?`
Load(p) ==
    /\ pc[p] = "load"
    /\ \E ok \in BOOLEAN :
         IF ok /\ Exists(ModelPath)
         THEN /\ loaded' = [loaded EXCEPT ![p] = TRUE]
              /\ pc' = [pc EXCEPT ![p] = "persist"]
              /\ UNCHANGED err
         ELSE /\ Fail(p, "LoadFailed")
              /\ UNCHANGED loaded
    /\ UNCHANGED <<fs, modelFile, startExists, cmd, modelArg, baselines, trained, saved,
                   inspected, overwrote>>
    /\ UNCHANGED <<liveVars, nameVars>>

\* process: the baselines lookup, None => content.discover_baselines(),
\* Some(baselines) => map(Content::from_input).collect(), then `?`
LookupBaselines(p) ==
    /\ pc[p] = "lookup"
    /\ LET found == IF BaselinesGiven(p)
                    THEN FromInput(BaselinePath)
                    ELSE DiscoverBaselines(TargetPath)
       IN  IF found = "UnknownPath"
           THEN /\ Fail(p, "UnknownPath")
                /\ UNCHANGED baselines
           ELSE /\ baselines' = [baselines EXCEPT ![p] =
                                   IF BaselinesGiven(p) THEN "explicit" ELSE "discovered"]
                /\ pc' = [pc EXCEPT ![p] = "train"]
                /\ UNCHANGED err
    /\ UNCHANGED <<fs, modelFile, startExists, cmd, modelArg, loaded, trained,
                   saved, inspected, overwrote>>
    /\ UNCHANGED <<liveVars, nameVars>>

\* process: Model::train(show_progress, baselines, hashing_index::new), then `?`
Train(p) ==
    /\ pc[p] = "train"
    /\ \E ok \in BOOLEAN :
         IF ok
         THEN /\ trained' = [trained EXCEPT ![p] = baselines[p]]
              /\ pc' = [pc EXCEPT ![p] = "persist"]
              /\ UNCHANGED err
         ELSE /\ Fail(p, "TrainFailed")
              /\ UNCHANGED trained
    /\ UNCHANGED <<fs, modelFile, startExists, cmd, modelArg, baselines, loaded, saved,
                   inspected, overwrote>>
    /\ UNCHANGED <<liveVars, nameVars>>

\* process: match model_path { Some(ref path) if !path.exists() => ..., _ => Ok(()) }
PersistCheck(p) ==
    /\ pc[p] = "persist"
    /\ pc' = [pc EXCEPT ![p] =
                IF modelArg[p] /\ ~Exists(ModelPath) THEN "save" ELSE "inspect"]
    /\ UNCHANGED <<fs, modelFile, startExists, cmd, modelArg, err, baselines, loaded, trained,
                   saved, inspected, overwrote>>
    /\ UNCHANGED <<liveVars, nameVars>>

\* process: model.save(path), then `?`
Save(p) ==
    /\ pc[p] = "save"
    /\ \E ok \in BOOLEAN :
         IF ok
         THEN /\ WriteModel(p)
              /\ pc' = [pc EXCEPT ![p] = "inspect"]
              /\ UNCHANGED err
         ELSE /\ Fail(p, "SaveFailed")
              /\ UNCHANGED <<fs, modelFile, saved, overwrote>>
    /\ UNCHANGED <<startExists, cmd, modelArg, baselines, loaded, trained, inspected>>
    /\ UNCHANGED <<liveVars, nameVars>>

\* process: match report { None => process_live(..), Some(file) => model.report(..)? }
Inspect(p) ==
    /\ pc[p] = "inspect"
    /\ inspected' = [inspected EXCEPT ![p] = TRUE]
    /\ \E ok \in BOOLEAN :
         IF ok
         THEN /\ pc' = [pc EXCEPT ![p] = "done"]
              /\ UNCHANGED err
         ELSE Fail(p, "ReportFailed")
    /\ UNCHANGED <<fs, modelFile, startExists, cmd, modelArg, baselines, loaded, trained,
                   saved, overwrote>>
    /\ UNCHANGED <<liveVars, nameVars>>

\* Cli::run, Commands::Train: self.model.ok_or_else(..)?, then the baselines
\* map(Input::from_string).map(Content::from_input).collect()?
TrainCmdBaselines(p) ==
    /\ pc[p] = "run"
    /\ cmd[p] = "train"
    /\ IF ~modelArg[p]
       THEN Fail(p, "ModelRequired") /\ UNCHANGED baselines
       ELSE IF FromInput(BaselinePath) = "UnknownPath"
       THEN Fail(p, "UnknownPath") /\ UNCHANGED baselines
       ELSE /\ baselines' = [baselines EXCEPT ![p] = "explicit"]
            /\ pc' = [pc EXCEPT ![p] = "cmdtrain"]
            /\ UNCHANGED err
    /\ UNCHANGED <<fs, modelFile, startExists, cmd, modelArg, loaded, trained,
                   saved, inspected, overwrote>>
    /\ UNCHANGED <<liveVars, nameVars>>

\* Cli::run, Commands::Train: Model::train(progress, .., hashing_index::new)?
TrainCmdTrain(p) ==
    /\ pc[p] = "cmdtrain"
    /\ \E ok \in BOOLEAN :
         IF ok
         THEN /\ trained' = [trained EXCEPT ![p] = baselines[p]]
              /\ pc' = [pc EXCEPT ![p] = "cmdsave"]
              /\ UNCHANGED err
         ELSE /\ Fail(p, "TrainFailed")
              /\ UNCHANGED trained
    /\ UNCHANGED <<fs, modelFile, startExists, cmd, modelArg, baselines, loaded, saved,
                   inspected, overwrote>>
    /\ UNCHANGED <<liveVars, nameVars>>

\* Cli::run, Commands::Train: model.save(&model_path)
TrainCmdSave(p) ==
    /\ pc[p] = "cmdsave"
    /\ \E ok \in BOOLEAN :
         IF ok
         THEN /\ WriteModel(p)
              /\ pc' = [pc EXCEPT ![p] = "done"]
              /\ UNCHANGED err
         ELSE /\ Fail(p, "SaveFailed")
              /\ UNCHANGED <<fs, modelFile, saved, overwrote>>
    /\ UNCHANGED <<startExists, cmd, modelArg, baselines, loaded, trained, inspected>>
    /\ UNCHANGED <<liveVars, nameVars>>

Kinds == {"none", "file", "dir"}

\* The state as the invocations in `running` start, every other one off.
InitCli(running, commands) ==
    /\ startExists \in BOOLEAN
    /\ \E t \in Kinds, t0 \in Kinds, b \in Kinds :
         fs = [path \in Paths |->
                 CASE path = TargetPath -> t
                   [] path = PushDotZero(TargetPath) -> t0
                   [] path = BaselinePath -> b
                   [] OTHER -> IF startExists THEN "file" ELSE "none"]
    /\ modelFile = {}
    /\ cmd \in [Procs -> commands \cup {"off"}]
    /\ \A p \in Procs : cmd[p] = "off" <=> p \notin running
    /\ modelArg \in [Procs -> BOOLEAN]
    /\ \A p \in Procs : cmd[p] = "off" => ~modelArg[p]
    /\ pc = [p \in Procs |-> IF p \in running THEN "run" ELSE "off"]
    /\ err = [p \in Procs |-> "none"]
    /\ baselines = [p \in Procs |-> "none"]
    /\ loaded = [p \in Procs |-> FALSE]
    /\ trained = [p \in Procs |-> "no"]
    /\ saved = [p \in Procs |-> 0]
    /\ inspected = [p \in Procs |-> FALSE]
    /\ overwrote = [p \in Procs |-> FALSE]

\* process_live is not running.
IdleLive ==
    /\ show_progress = FALSE
    /\ nSources = 0
    /\ srcIdx = 0
    /\ livePc = "off"
    /\ progress_sep_shown = FALSE
    /\ last_pos = {}
    /\ cursor = 0
    /\ prevEnd = {}
    /\ window = <<0, 0>>
    /\ emitted = <<>>
    /\ visited = <<>>
    /\ failed = {}
    /\ silent = {}
    /\ erased = {}
    /\ lateOutput = FALSE
    /\ ret = "none"

\* IndexName::from_path is not being evaluated.
IdleName ==
    /\ nameToks = <<>>
    /\ nameKey = <<>>
    /\ nameToks2 = <<>>
    /\ nameKey2 = <<>>
    /\ namePc = "off"

Init == InitCli({1}, {"path", "diff", "train"}) /\ IdleLive /\ IdleName

Next ==
    \E p \in Procs :
      \/ ProcessContent(p)
      \/ Resolve(p)
      \/ Load(p)
      \/ LookupBaselines(p)
      \/ Train(p)
      \/ PersistCheck(p)
      \/ Save(p)
      \/ Inspect(p)
      \/ TrainCmdBaselines(p)
      \/ TrainCmdTrain(p)
      \/ TrainCmdSave(p)

Spec == Init /\ [][Next]_vars

\* Two invocations of process (path or diff commands) with the same --model path.
InitRace ==
    /\ InitCli({1, 2}, {"path", "diff"})
    /\ IdleLive
    /\ IdleName
    /\ \A p \in Procs : cmd[p] # "off" => modelArg[p]

NextRace ==
    \E p \in Procs :
      \/ ProcessContent(p)
      \/ Resolve(p)
      \/ Load(p)
      \/ LookupBaselines(p)
      \/ Train(p)
      \/ PersistCheck(p)
      \/ Save(p)
      \/ Inspect(p)

SpecRace == InitRace /\ [][NextRace]_vars

\* ------------------------------------------------------------- process_live

\* One printed line (or control sequence): its kind, the source it names, the
\* number printed next to it, and the line of the source it shows.
Ev(k, src, label, line) == [k |-> k, src |-> src, label |-> label, line |-> line]

Seps == <<Ev("sep", 0, 0, 0)>>
Gap == <<Ev("gap", 0, 0, 0)>>

\* An AnomalyContext at position pos (1-based) with nb lines before and na lines
\* after: before and after hold the lines immediately around it, each line
\* standing for its own position in the source.
AnomalyContext(pos, nb, na) ==
    [pos |-> pos,
     before |-> [i \in 1..nb |-> pos - nb + i - 1],
     after |-> [i \in 1..na |-> pos + i]]

\* print_context: xs.iter().enumerate(), println!("   {} | {}", pos + idx, line)
PrintContext(pos, xs) ==
    [i \in 1..Len(xs) |-> Ev("ctx", 0, pos + (i - 1), xs[i])]

\* print_anomaly: anomaly.anomaly.pos - 1 - anomaly.before.len()
StartingPos(anomaly) == anomaly.pos - 1 - Len(anomaly.before)

\* A faulty gap test: it compares last_pos with the first line of the window.
GapNeededFromWindow(lp, anomaly) ==
    lp # {} /\ lp # {anomaly.pos - Len(anomaly.before)}

\* print_anomaly: if let Some(last_pos) = last_pos { if last_pos != starting_pos }
GapNeeded(lp, anomaly) ==
    lp # {} /\ lp # {StartingPos(anomaly)}

\* print_anomaly: what it prints for one anomaly, given last_pos.
PrintAnomaly(lp, anomaly) ==
    (IF GapNeeded(lp, anomaly) THEN Gap ELSE <<>>)
    \o PrintContext(StartingPos(anomaly), anomaly.before)
    \o <<Ev("anomaly", 0, anomaly.pos, anomaly.pos)>>
    \o PrintContext(anomaly.pos, anomaly.after)

\* print_anomaly: last_pos = Some(anomaly.anomaly.pos + anomaly.after.len())
NewLastPos(anomaly) == {anomaly.pos + Len(anomaly.after)}

\* The inner loop: if show_progress && !progress_sep_shown { println!(); .. }
ProgressSep == IF show_progress /\ ~progress_sep_shown THEN Seps ELSE <<>>

\* The outer loop moves on to the next source, or leaves the loop after the last.
Advance ==
    /\ srcIdx' = srcIdx + 1
    /\ livePc' = IF srcIdx + 1 > nSources THEN "end" ELSE "source"

\* content.get_sources()?: the list of sources, or an error that is returned.
GetSources ==
    /\ livePc = "start"
    /\ \E ok \in BOOLEAN :
         IF ok
         THEN /\ srcIdx' = 1
              /\ livePc' = IF nSources = 0 THEN "end" ELSE "source"
              /\ ret' = ret
         ELSE /\ livePc' = "returned"
              /\ ret' = "Err"
              /\ srcIdx' = srcIdx
    /\ emitted' = <<>>
    /\ UNCHANGED <<show_progress, nSources, progress_sep_shown, last_pos, cursor,
                   prevEnd, window, visited, failed, silent, erased, lateOutput>>
    /\ UNCHANGED <<cliVars, nameVars>>

\* The outer loop takes a source with an index: Some(index) => let mut last_pos
\* = None; ...; progress_sep_shown = false; and the inner loop starts.
SourceWithIndex ==
    /\ livePc = "source"
    /\ visited' = Append(visited, srcIdx)
    /\ last_pos' = {}
    /\ progress_sep_shown' = FALSE
    /\ cursor' = 0
    /\ prevEnd' = {}
    /\ livePc' = "iter"
    /\ emitted' = <<>>
    /\ UNCHANGED <<show_progress, nSources, srcIdx, window, failed, silent, erased,
                   lateOutput, ret>>
    /\ UNCHANGED <<cliVars, nameVars>>

\* The outer loop takes a source without an index: None => { progress_sep_shown
\* = true; println!(" -> No baselines for {}", source) }
SourceWithoutIndex ==
    /\ livePc = "source"
    /\ visited' = Append(visited, srcIdx)
    /\ progress_sep_shown' = TRUE
    /\ emitted' = <<Ev("nobase", srcIdx, 0, 0)>>
    /\ Advance
    /\ UNCHANGED <<show_progress, nSources, last_pos, cursor, prevEnd, window, failed,
                   silent, erased, lateOutput, ret>>
    /\ UNCHANGED <<cliVars, nameVars>>

\* One iteration of the inner loop on Ok(anomaly): the separator if due, then
\* print_anomaly. index.inspect yields anomalies at increasing positions.
AnomalyOk ==
    /\ livePc = "iter"
    /\ \E pos \in (cursor + 1)..MaxLine :
       \E nb \in 0..MaxCtx, na \in 0..MaxCtx :
         /\ nb <= pos - 1
         /\ LET anomaly == AnomalyContext(pos, nb, na)
            IN  /\ emitted' = ProgressSep \o PrintAnomaly(last_pos, anomaly)
                /\ last_pos' = NewLastPos(anomaly)
                /\ window' = <<pos - nb, pos + na>>
                /\ cursor' = pos
    /\ progress_sep_shown' = (progress_sep_shown \/ show_progress)
    /\ prevEnd' = IF cursor = 0 THEN {} ELSE {window[2]}
    /\ lateOutput' = (lateOutput \/ srcIdx \in failed)
    /\ UNCHANGED <<show_progress, nSources, srcIdx, livePc, visited, failed, silent,
                   erased, ret>>
    /\ UNCHANGED <<cliVars, nameVars>>

\* A faulty error arm: it returns the error instead of leaving the inner loop.
AnomalyErrReturns ==
    /\ livePc = "iter"
    /\ srcIdx \notin failed
    /\ emitted' = ProgressSep \o <<Ev("err", srcIdx, 0, 0)>>
    /\ progress_sep_shown' = (progress_sep_shown \/ show_progress)
    /\ failed' = failed \cup {srcIdx}
    /\ lateOutput' = (lateOutput \/ srcIdx \in failed)
    /\ livePc' = "returned"
    /\ ret' = "Err"
    /\ UNCHANGED <<show_progress, nSources, srcIdx, last_pos, cursor, prevEnd, window,
                   visited, silent, erased>>
    /\ UNCHANGED <<cliVars, nameVars>>

\* One iteration of the inner loop on Err(e): the separator if due, then
\* println!("Could not read {}: {}", &source, e); break;
AnomalyErr ==
    /\ livePc = "iter"
    /\ srcIdx \notin failed
    /\ emitted' = ProgressSep \o <<Ev("err", srcIdx, 0, 0)>>
    /\ progress_sep_shown' = (progress_sep_shown \/ show_progress)
    /\ failed' = failed \cup {srcIdx}
    /\ lateOutput' = (lateOutput \/ srcIdx \in failed)
    /\ Advance
    /\ UNCHANGED <<show_progress, nSources, last_pos, cursor, prevEnd, window,
                   visited, silent, erased, ret>>
    /\ UNCHANGED <<cliVars, nameVars>>

\* index.inspect is exhausted: the inner loop ends.
EndOfSource ==
    /\ livePc = "iter"
    /\ silent' = IF cursor = 0 /\ srcIdx \notin failed
                 THEN silent \cup {srcIdx} ELSE silent
    /\ emitted' = <<>>
    /\ Advance
    /\ UNCHANGED <<show_progress, nSources, progress_sep_shown, last_pos, cursor,
                   prevEnd, window, visited, failed, erased, lateOutput, ret>>
    /\ UNCHANGED <<cliVars, nameVars>>

\* After the outer loop: if show_progress && !progress_sep_shown {
\* print!("\r\x1b[K") }; Ok(())
Finish ==
    /\ livePc = "end"
    /\ IF show_progress /\ ~progress_sep_shown
       THEN /\ emitted' = <<Ev("erase", 0, 0, 0)>>
            /\ erased' = IF visited = <<>> THEN erased
                         ELSE erased \cup {visited[Len(visited)]}
       ELSE /\ emitted' = <<>>
            /\ erased' = erased
    /\ ret' = "Ok"
    /\ livePc' = "returned"
    /\ UNCHANGED <<show_progress, nSources, srcIdx, progress_sep_shown, last_pos,
                   cursor, prevEnd, window, visited, failed, silent, lateOutput>>
    /\ UNCHANGED <<cliVars, nameVars>>

\* No invocation of Cli::run is in progress.
IdleCli ==
    /\ fs = [path \in Paths |-> "none"]
    /\ modelFile = {}
    /\ startExists = FALSE
    /\ cmd = [p \in Procs |-> "off"]
    /\ modelArg = [p \in Procs |-> FALSE]
    /\ pc = [p \in Procs |-> "off"]
    /\ err = [p \in Procs |-> "none"]
    /\ baselines = [p \in Procs |-> "none"]
    /\ loaded = [p \in Procs |-> FALSE]
    /\ trained = [p \in Procs |-> "no"]
    /\ saved = [p \in Procs |-> 0]
    /\ inspected = [p \in Procs |-> FALSE]
    /\ overwrote = [p \in Procs |-> FALSE]

\* process_live is called: let mut progress_sep_shown = false;
InitLive ==
    /\ IdleCli
    /\ IdleName
    /\ show_progress \in BOOLEAN
    /\ nSources \in 0..MaxSources
    /\ srcIdx = 0
    /\ livePc = "start"
    /\ progress_sep_shown = FALSE
    /\ last_pos = {}
    /\ cursor = 0
    /\ prevEnd = {}
    /\ window = <<0, 0>>
    /\ emitted = <<>>
    /\ visited = <<>>
    /\ failed = {}
    /\ silent = {}
    /\ erased = {}
    /\ lateOutput = FALSE
    /\ ret = "none"

NextLive ==
    \/ GetSources
    \/ SourceWithIndex
    \/ SourceWithoutIndex
    \/ AnomalyOk
    \/ AnomalyErr
    \/ EndOfSource
    \/ Finish

SpecLive == InitLive /\ [][NextLive]_vars

\* ----------------------------------------------------- IndexName::from_path

\* Strings are sequences of one-character strings.
\* from_path: unwrap_or("N/A")
StrNA == <<"N", "/", "A">>
\* from_path: starts_with("qemu/instance-")
StrQemuPrefix == <<"q", "e", "m", "u", "/", "i", "n", "s", "t", "a", "n", "c", "e", "-">>
\* from_path: "qemu/instance".to_string()
StrQemuName == <<"q", "e", "m", "u", "/", "i", "n", "s", "t", "a", "n", "c", "e">>
\* is_k8s_service: starts_with("k8s_")
StrK8sPrefix == <<"k", "8", "s", "_">>

\* The paths of the tests log_model_name and test_is_k8s_service.
PathQemuA ==
    <<"c", "o", "n", "t", "a", "i", "n", "e", "r", "s", "/", "l", "i", "b", "v", "i", "r", "t", "/", "q", "e", "m", "u", "/", "i", "n", "s", "t", "a", "n", "c", "e", "-", "0", "0", "0", "0", "0", "0", "1", "d", ".", "l", "o", "g", ".", "t", "x", "t", ".", "g", "z">>
PathQemuB ==
    <<"l", "i", "b", "v", "i", "r", "t", "/", "q", "e", "m", "u", "/", "i", "n", "s", "t", "a", "n", "c", "e", "-", "0", "0", "0", "0", "0", "0", "e", "c", ".", "l", "o", "g", ".", "t", "x", "t", ".", "g", "z">>
PathBuildsLog ==
    <<"b", "u", "i", "l", "d", "s", "/", "2", "/", "l", "o", "g">>
PathNumLog ==
    <<"4", "2", "/", "l", "o", "g">>
PathAudit ==
    <<"a", "u", "d", "i", "t", "/", "a", "u", "d", "i", "t", ".", "l", "o", "g">>
PathAuditRotated ==
    <<"a", "u", "d", "i", "t", "/", "a", "u", "d", "i", "t", ".", "l", "o", "g", ".", "1">>
PathMerger ==
    <<"z", "u", "u", "l", "/", "m", "e", "r", "g", "e", "r", ".", "l", "o", "g">>
PathMergerDated ==
    <<"z", "u", "u", "l", "/", "m", "e", "r", "g", "e", "r", ".", "l", "o", "g", ".", "2", "0", "1", "7", "-", "1", "1", "-", "1", "2">>
PathK8sZuul ==
    <<"k", "8", "s", "_", "z", "u", "u", "l", "-", "u", "u", "i", "d">>
PathK3sZuul ==
    <<"k", "3", "s", "_", "z", "u", "u", "l", "-", "u", "u", "i", "d">>

\* The keys those tests expect.
KeyLog == <<"l", "o", "g">>
KeyAudit == <<"a", "u", "d", "i", "t", "/", "a", "u", "d", "i", "t", ".", "l", "o", "g">>
KeyMerger == <<"z", "u", "u", "l", "/", "m", "e", "r", "g", "e", "r", ".", "l", "o", "g">>
KeyK8sZuul == <<"k", "8", "s", "_", "z", "u", "u", "l">>

\* The pieces bounded paths are put together from.
TokQemuDir == <<"q", "e", "m", "u", "/">>
TokInstance == <<"i", "n", "s", "t", "a", "n", "c", "e", "-">>
TokK8s == <<"k", "8", "s", "_">>
TokK3s == <<"k", "3", "s", "_">>
TokZuul == <<"z", "u", "u", "l">>
TokDash == <<"-">>
TokDigit == <<"1">>
TokSlash == <<"/">>
TokDot == <<".">>
Tokens == {TokQemuDir, TokInstance, TokK8s, TokK3s, TokZuul, TokDash, TokDigit, TokSlash, TokDot}
TestPaths ==
    {PathQemuA,
     PathQemuB,
     PathBuildsLog,
     PathNumLog,
     PathAudit,
     PathAuditRotated,
     PathMerger,
     PathMergerDated,
     PathK8sZuul,
     PathK3sZuul}

\* char::is_ascii_alphabetic
AsciiAlphabetic ==
    {"a", "b", "c", "d", "e", "f", "g", "h", "i", "j", "k", "l", "m",
     "n", "o", "p", "q", "r", "s", "t", "u", "v", "w", "x", "y", "z",
     "A", "B", "C", "D", "E", "F", "G", "H", "I", "J", "K", "L", "M",
     "N", "O", "P", "Q", "R", "S", "T", "U", "V", "W", "X", "Y", "Z"}

\* matches!(c, '/' | '.' | '_' | '-')
IsPunct(c) == c \in {"/", ".", "_", "-"}

\* str::starts_with
StartsWith(s, prefix) ==
    Len(s) >= Len(prefix) /\ SubSeq(s, 1, Len(prefix)) = prefix

\* The first position of character c in s, Len(s) + 1 when there is none.
RECURSIVE FindFrom(_, _, _)
FindFrom(s, c, i) ==
    IF i > Len(s) THEN Len(s) + 1
    ELSE IF s[i] = c THEN i
    ELSE FindFrom(s, c, i + 1)

Find(s, c) == FindFrom(s, c, 1)

\* Path::components, the names between separators: runs of '/' separate
\* and empty names are dropped.
RECURSIVE Segments(_)
Segments(s) ==
    IF s = <<>> THEN <<>>
    ELSE IF Head(s) = "/" THEN Segments(Tail(s))
    ELSE LET n == Find(s, "/")
         IN  <<SubSeq(s, 1, n - 1)>> \o Segments(SubSeq(s, n, Len(s)))

\* Path::has_root
HasRoot(s) == s # <<>> /\ s[1] = "/"

\* Path::components: RootDir for a leading '/', CurDir for a leading '.', and
\* of the names Normal or ParentDir; a '.' further in is skipped.
Components(s) ==
    LET segs == Segments(s)
        kindOf(i) ==
            IF segs[i] = <<".">>
            THEN (IF i = 1 /\ ~HasRoot(s) THEN "CurDir" ELSE "Skip")
            ELSE IF segs[i] = <<".", ".">> THEN "ParentDir"
            ELSE "Normal"
        all == [i \in 1..Len(segs) |-> [kind |-> kindOf(i), name |-> segs[i]]]
        IsComponent(c) == c.kind # "Skip"
    IN  (IF HasRoot(s) THEN <<[kind |-> "RootDir", name |-> <<"/">>]>> ELSE <<>>)
        \o SelectSeq(all, IsComponent)

\* Option<&str>: None, or Some(s)
None == [some |-> FALSE, str |-> <<>>]
Some(s) == [some |-> TRUE, str |-> s]

\* Path::file_name on the components of a path: the last one if it is Normal.
FileName(comps) ==
    IF comps # <<>> /\ comps[Len(comps)].kind = "Normal"
    THEN Some(comps[Len(comps)].name)
    ELSE None

\* Path::parent().and_then(|parent| parent.file_name()): the path without its
\* last component, unless that is the root or there is none, then its file_name.
ParentFileName(comps) ==
    IF comps # <<>> /\ comps[Len(comps)].kind \in {"Normal", "CurDir", "ParentDir"}
    THEN FileName(SubSeq(comps, 1, Len(comps) - 1))
    ELSE None

\* from_path: filename, unwrap_or("N/A")
FileNameOf(base) ==
    LET name == FileName(Components(base))
    IN  IF name.some THEN name.str ELSE StrNA

\* from_path: shortfilename, the filename with its first parent directory name
ShortFileName(base) ==
    LET parent == ParentFileName(Components(base))
    IN  IF parent.some
        THEN parent.str \o <<"/">> \o FileNameOf(base)
        ELSE FileNameOf(base)

\* A faulty service test: it takes any k?s_ prefix.
IsK8sServiceAnyDigit(filename) ==
    IF Len(filename) >= 4 /\ filename[1] = "k" /\ filename[3] = "s" /\ filename[4] = "_"
    THEN LET n == Find(filename, "-")
         IN  IF n <= Len(filename) THEN Some(SubSeq(filename, 1, n - 1)) ELSE None
    ELSE None

\* is_k8s_service: starts_with("k8s_"), then split_once('-')
IsK8sService(filename) ==
    IF StartsWith(filename, StrK8sPrefix)
    THEN LET n == Find(filename, "-")
         IN  IF n <= Len(filename) THEN Some(SubSeq(filename, 1, n - 1)) ELSE None
    ELSE None

\* from_path: replace(|c| !c.is_ascii_alphabetic() && !matches!(..), "")
RECURSIVE ReplaceRemoved(_)
ReplaceRemoved(s) ==
    IF s = <<>> THEN <<>>
    ELSE IF Head(s) \notin AsciiAlphabetic /\ ~IsPunct(Head(s))
    THEN ReplaceRemoved(Tail(s))
    ELSE <<Head(s)>> \o ReplaceRemoved(Tail(s))

\* str::trim_start_matches
RECURSIVE TrimStart(_)
TrimStart(s) ==
    IF s # <<>> /\ IsPunct(Head(s)) THEN TrimStart(Tail(s)) ELSE s

\* str::trim_end_matches
RECURSIVE TrimEnd(_)
TrimEnd(s) ==
    IF s # <<>> /\ IsPunct(s[Len(s)]) THEN TrimEnd(SubSeq(s, 1, Len(s) - 1)) ELSE s

\* A faulty trim: it trims the start only.
TrimMatchesStartOnly(s) == TrimStart(s)

\* from_path: trim_matches(|c| matches!(c, '/' | '.' | '_' | '-'))
TrimMatches(s) == TrimEnd(TrimStart(s))

\* IndexName::from_path
IndexNameFromPath(base) ==
    LET filename == FileNameOf(base)
        shortfilename == ShortFileName(base)
        service == IsK8sService(filename)
    IN  IF StartsWith(shortfilename, StrQemuPrefix) THEN StrQemuName
        ELSE IF service.some THEN service.str
        ELSE TrimMatches(ReplaceRemoved(shortfilename))

\* The pieces of a path, put together.
RECURSIVE Concat(_)
Concat(toks) == IF toks = <<>> THEN <<>> ELSE Head(toks) \o Concat(Tail(toks))

\* The path from_path was called on, and the second path of a pair.
Base == Concat(nameToks)
Base2 == Concat(nameToks2)

\* A path is picked: piece by piece, up to MaxTokens pieces.
AppendToken ==
    /\ namePc = "input"
    /\ Len(nameToks) < MaxTokens
    /\ nameToks \notin {<<p>> : p \in TestPaths}
    /\ \E tok \in Tokens : nameToks' = Append(nameToks, tok)
    /\ UNCHANGED <<namePc, nameKey, nameToks2, nameKey2>>
    /\ UNCHANGED <<cliVars, liveVars>>

\* IndexName::from_path(base)
DeriveName ==
    /\ namePc = "input"
    /\ nameKey' = IndexNameFromPath(Base)
    /\ namePc' = "derived"
    /\ UNCHANGED <<nameToks, nameToks2, nameKey2>>
    /\ UNCHANGED <<cliVars, liveVars>>

\* IndexName::from_path on a second path: the first with a digit put in
\* between two of its pieces, or under a numeric directory, or another of the
\* tests' paths.
DeriveSecond ==
    /\ namePc = "derived"
    /\ \/ \E i \in 0..Len(nameToks) :
            nameToks2' = SubSeq(nameToks, 1, i) \o <<TokDigit>>
                         \o SubSeq(nameToks, i + 1, Len(nameToks))
       \/ nameToks2' = <<TokDigit, TokSlash>> \o nameToks
       \/ \E p \in TestPaths : nameToks \in {<<q>> : q \in TestPaths} /\ nameToks2' = <<p>>
    /\ nameKey2' = IndexNameFromPath(Concat(nameToks2'))
    /\ namePc' = "paired"
    /\ UNCHANGED <<nameToks, nameKey>>
    /\ UNCHANGED <<cliVars, liveVars>>

InitName ==
    /\ IdleCli
    /\ IdleLive
    /\ nameToks \in {<<>>} \cup {<<p>> : p \in TestPaths}
    /\ nameKey = <<>>
    /\ nameToks2 = <<>>
    /\ nameKey2 = <<>>
    /\ namePc = "input"

NextName ==
    \/ AppendToken
    \/ DeriveName
    \/ DeriveSecond

SpecName == InitName /\ [][NextName]_vars

\* -------------------------------------------------- claims on Cli / process

\* The commands that go through process.
ThroughProcess(p) == cmd[p] \in {"path", "diff"}

\* Positions of process after the model was resolved (loaded or trained).
PastModel(p) == pc[p] \in {"persist", "save", "inspect"} \/ inspected[p]

\* C1: model resolution in process. With the --model path existing and no
\* explicit baselines the model is loaded and nothing is trained; with the path
\* existing and explicit baselines the run fails as Ambiguous and never loads,
\* trains, saves or inspects; otherwise a fresh model is trained from the
\* explicit baselines if given and from the discovered ones if not, and nothing
\* is loaded.
C1_ModelResolution ==
    \A p \in Procs : ThroughProcess(p) =>
      LET exists == modelArg[p] /\ startExists
          given == cmd[p] = "diff"
          from == IF given THEN "explicit" ELSE "discovered"
      IN  /\ (exists /\ ~given) =>
                /\ trained[p] = "no"
                /\ baselines[p] = "none"
                /\ PastModel(p) => loaded[p]
          /\ (exists /\ given) =>
                /\ ~loaded[p]
                /\ trained[p] = "no"
                /\ baselines[p] = "none"
                /\ saved[p] = 0
                /\ ~inspected[p]
                /\ pc[p] \in {"run", "resolve", "done"}
                /\ (pc[p] = "done" /\ Exists(TargetPath)) => err[p] = "Ambiguous"
          /\ ~exists =>
                /\ ~loaded[p]
                /\ trained[p] \in {"no", from}
                /\ PastModel(p) => trained[p] = from

\* C1 witness: a run that ended with the Ambiguous error.
C1_Witness ==
    \E p \in Procs :
      /\ pc[p] = "done"
      /\ err[p] = "Ambiguous"
      /\ modelArg[p] /\ startExists /\ cmd[p] = "diff"

\* C2: an invocation with --model writes the model only if the path did not
\* exist when it started, and only after training succeeded. (The train
\* command saves unconditionally.)
C2_NeverOverwritesExisting ==
    \A p \in Procs : saved[p] > 0 => (~startExists /\ trained[p] # "no")

\* C3: with no explicit baselines and no existing model, a synthesized
\* baseline path that does not exist does not fail the run: it goes on to
\* inspection. (from_path's error is propagated by `?` through
\* discover_baselines_from_path and process.)
C3_DiscoveryIsSoft ==
    \A p \in Procs :
      ( /\ cmd[p] = "path"
        /\ ~(modelArg[p] /\ startExists)
        /\ Exists(TargetPath)
        /\ ~Exists(PushDotZero(TargetPath))
        /\ pc[p] = "done" )
      => /\ err[p] # "UnknownPath"
         /\ err[p] \notin {"TrainFailed", "SaveFailed"} => inspected[p]

\* C9: with two invocations of process on one --model path, no invocation's
\* save replaces the model the other has saved: a write follows the writer's
\* own existence check with no write by the other in between.
C9_NoLostModel ==
    \A p \in Procs : ThroughProcess(p) => ~overwrote[p]

\* -------------------------------------------------- claims on process_live

\* How many lines of kind k the last step printed.
Count(k) == Cardinality({i \in 1..Len(emitted) : emitted[i].k = k})

\* The last step was print_anomaly.
PrintedAnomaly == Count("anomaly") = 1

\* C4: a read failure in one source prints one 'Could not read' notice naming
\* that source and nothing more for it; the sources after it are still taken,
\* in order, each starting from a fresh last_pos and separator flag; and
\* process_live returns Ok once every source was taken.
C4_ErrorIsolation ==
    /\ ~lateOutput
    /\ visited = [i \in 1..Len(visited) |-> i]
    /\ \A s \in failed : \E i \in 1..Len(visited) : visited[i] = s
    /\ Count("err") <= 1
    /\ \A i \in 1..Len(emitted) :
         emitted[i].k = "err" =>
           /\ emitted[i].src \in failed
           /\ emitted[i].src = visited[Len(visited)]
           /\ ~PrintedAnomaly
    /\ (livePc = "iter" /\ cursor = 0) => (last_pos = {} /\ ~progress_sep_shown)
    /\ livePc = "returned" =>
         \/ ret = "Ok" /\ Len(visited) = nSources
         \/ ret = "Err" /\ visited = <<>>

\* C4 witness: the run returned Ok after a read failure in a source that was
\* not the last one.
C4_Witness ==
    /\ livePc = "returned"
    /\ ret = "Ok"
    /\ \E s \in failed : s < nSources /\ Len(visited) = nSources

\* C5: `--` is printed exactly once, first, when lines were skipped between the
\* previous anomaly's window and this one's, not at all when this window starts
\* right after the previous one, and never before the first anomaly of a source.
C5_GapMarkers ==
    /\ Count("gap") <= 1
    /\ Count("gap") = 1 => PrintedAnomaly /\ emitted[1].k = "gap"
    /\ PrintedAnomaly =>
         /\ prevEnd = {} => Count("gap") = 0
         /\ \A e \in prevEnd :
              /\ window[1] > e + 1 => Count("gap") = 1
              /\ window[1] = e + 1 => Count("gap") = 0

\* C5 witness: an anomaly printed after a `--`, lines having been skipped since
\* the previous window.
C5_Witness ==
    /\ PrintedAnomaly
    /\ Count("gap") = 1
    /\ \E e \in prevEnd : window[1] > e + 1

\* C8: with progress display on, a blank separator is printed once, before the
\* first anomaly of a source, and every source that has an index and yields no
\* anomaly has its progress indicator erased. (Only the state left by the last
\* source is looked at after the loop.)
C8_ProgressFeedback ==
    show_progress =>
      /\ (PrintedAnomaly /\ prevEnd = {}) => (Count("sep") = 1 /\ emitted[1].k = "sep")
      /\ (PrintedAnomaly /\ prevEnd # {}) => Count("sep") = 0
      /\ (livePc = "returned" /\ ret = "Ok") => silent \subseteq erased

\* C10: the number printed next to each line of an anomaly's window is that
\* line's 1-based position in the source, so the labels of a window are
\* consecutive, and the window start never underflows. (print_context is given
\* pos - 1 - len(before) for the lines before and pos for the lines after.)
C10_LineLabels ==
    /\ \A i \in 1..Len(emitted) :
         emitted[i].k \in {"ctx", "anomaly"} => emitted[i].label = emitted[i].line
    /\ \A i \in 1..(Len(emitted) - 1) :
         (emitted[i].k \in {"ctx", "anomaly"} /\ emitted[i + 1].k \in {"ctx", "anomaly"})
           => emitted[i + 1].label = emitted[i].label + 1
    /\ PrintedAnomaly => window[1] - 1 >= 0

\* ---------------------------------------- claims on IndexName::from_path

\* The characters step 4 keeps: ASCII letters and / . _ -
Kept(c) == c \in AsciiAlphabetic \cup {"/", ".", "_", "-"}

\* s with every character removed that is not kept.
Stripped(s) == SelectSeq(s, Kept)

\* key is s without its leading and trailing characters among / . _ -
IsTrimOf(key, s) ==
    \E i \in 0..Len(s), j \in 0..Len(s) :
      /\ i <= j
      /\ key = SubSeq(s, i + 1, j)
      /\ \A k \in 1..i : s[k] \in {"/", ".", "_", "-"}
      /\ \A k \in (j + 1)..Len(s) : s[k] \in {"/", ".", "_", "-"}
      /\ key # <<>> => /\ key[1] \notin {"/", ".", "_", "-"}
                       /\ key[Len(key)] \notin {"/", ".", "_", "-"}

\* The shortname starts with qemu/instance-
QemuCase(base) == StartsWith(ShortFileName(base), StrQemuPrefix)

\* The filename starts with k8s_, and whether it holds a '-'
K8sPrefixed(base) == StartsWith(FileNameOf(base), StrK8sPrefix)
HasDash(base) == \E i \in 1..Len(FileNameOf(base)) : FileNameOf(base)[i] = "-"

\* The filename up to, excluding, its first '-'
BeforeFirstDash(base) ==
    LET f == FileNameOf(base)
        n == CHOOSE i \in 1..Len(f) : f[i] = "-" /\ \A k \in 1..(i - 1) : f[k] # "-"
    IN  SubSeq(f, 1, n - 1)

\* Neither the qemu rule nor the k8s rule applies: step 4 decides.
StepFour(base) == ~QemuCase(base) /\ ~(K8sPrefixed(base) /\ HasDash(base))

\* The key the claim gives a qemu or step-4 path.
NormalisedAs(key, base) ==
    /\ QemuCase(base) => key = StrQemuName
    /\ StepFour(base) => IsTrimOf(key, Stripped(ShortFileName(base)))

\* Two shortnames that differ only in removed characters, or in a parent
\* directory made of removed characters only.
DifferInRemovedOnly(s1, s2) ==
    \/ Stripped(s1) = Stripped(s2)
    \/ Stripped(s1) = <<"/">> \o Stripped(s2)
    \/ Stripped(s2) = <<"/">> \o Stripped(s1)

\* The keys the test log_model_name expects.
ExpectedOfTest(key, base) ==
    /\ base \in {PathQemuA, PathQemuB} => key = StrQemuName
    /\ base \in {PathBuildsLog, PathNumLog} => key = KeyLog
    /\ base \in {PathAudit, PathAuditRotated} => key = KeyAudit
    /\ base \in {PathMerger, PathMergerDated} => key = KeyMerger

\* C6: a path whose shortname starts with qemu/instance- gets the key
\* qemu/instance; any other path the k8s rule does not apply to gets its
\* shortname without the characters that are neither ASCII letters nor / . _ -,
\* trimmed of / . _ - at both ends; so two step-4 paths whose shortnames differ
\* only in removed characters or in a numeric parent directory get one key, as
\* the pairs of the test do.
C6_Normalisation ==
    /\ namePc \in {"derived", "paired"} =>
         /\ NormalisedAs(nameKey, Base)
         /\ ExpectedOfTest(nameKey, Base)
    /\ namePc = "paired" =>
         /\ NormalisedAs(nameKey2, Base2)
         /\ ExpectedOfTest(nameKey2, Base2)
         /\ ( /\ StepFour(Base)
              /\ StepFour(Base2)
              /\ DifferInRemovedOnly(ShortFileName(Base), ShortFileName(Base2)) )
            => nameKey = nameKey2

\* C6 witness: two different step-4 shortnames with one key, which trimming
\* had to shorten.
C6_Witness ==
    /\ namePc = "paired"
    /\ StepFour(Base) /\ StepFour(Base2)
    /\ ShortFileName(Base) # ShortFileName(Base2)
    /\ DifferInRemovedOnly(ShortFileName(Base), ShortFileName(Base2))
    /\ nameKey = nameKey2
    /\ nameKey # <<>>
    /\ nameKey2 # Stripped(ShortFileName(Base2))

\* C7: a filename that starts with k8s_ and holds a '-' gets as key its prefix
\* up to the first '-', digits kept and nothing trimmed, so the names of one
\* service share a key; any other prefix (k3s_) never takes the rule; a k8s_
\* filename without '-' gets the step-4 key of its shortname.
C7_K8sServiceRule ==
    /\ namePc \in {"derived", "paired"} =>
         /\ (K8sPrefixed(Base) /\ HasDash(Base)) => nameKey = BeforeFirstDash(Base)
         /\ (K8sPrefixed(Base) /\ ~HasDash(Base)) =>
               IsTrimOf(nameKey, Stripped(ShortFileName(Base)))
         /\ ~K8sPrefixed(Base) => NormalisedAs(nameKey, Base)
         /\ Base = PathK8sZuul => nameKey = KeyK8sZuul
         /\ Base = PathK3sZuul => nameKey # SubSeq(PathK3sZuul, 1, 8)
    /\ ( /\ namePc = "paired"
         /\ K8sPrefixed(Base) /\ HasDash(Base)
         /\ K8sPrefixed(Base2) /\ HasDash(Base2)
         /\ BeforeFirstDash(Base) = BeforeFirstDash(Base2) )
       => nameKey = nameKey2

\* C7 witness: the rule applied under a directory, to a filename with a service
\* name and something after the '-', and the key kept the digit of k8s_.
C7_Witness ==
    /\ namePc = "derived"
    /\ K8sPrefixed(Base) /\ HasDash(Base)
    /\ nameKey = BeforeFirstDash(Base)
    /\ Len(nameKey) > Len(StrK8sPrefix)
    /\ nameKey[2] = "8"

====
